---- MODULE Spec2Model ----
(***************************************************************************)
(* Model of treeherder's cycle_data management command                     *)
(* (treeherder/model/management/commands/cycle_data.py): the two data      *)
(* cyclers (TreeherderCycler, PerfherderCycler), the two removal           *)
(* strategies of performance_datum (MainRemovalStrategy, TryDataRemoval)   *)
(* with their chunk sizer, and the pruning of ancillary job data.          *)
(*                                                                         *)
(* Time is counted in days for push timestamps (a timestamp is the number  *)
(* of days relative to the moment the command starts, so a row that is     *)
(* `a` days old has push_timestamp -a) and in hours for the elapsed run    *)
(* time.                                                                   *)
(***************************************************************************)
EXTENDS Integers, Sequences, FiniteSets, TLC

(* ---------------------------------------------------------------- bounds *)
MaxRows == 3        \* ids of performance_datum rows are drawn from 1..MaxRows
MaxChunk == 2       \* --chunk-size is drawn from 1..MaxChunk
MaxJobs == 2        \* ids of job rows are drawn from 1..MaxJobs
MaxAnc == 2         \* ids of JobType / JobGroup / Machine rows: 1..MaxAnc

(* ----------------------------------------------------- program constants *)
MINIMUM_PERFHERDER_EXPIRE_INTERVAL == 365
max_runtime == 23               \* PerfherderCycler.max_runtime, hours
TRY_CYCLE_INTERVAL == 28        \* timedelta(weeks=4), days

TREEHERDER == "treeherder"
PERFHERDER == "perfherder"
DEFAULT_DAYS == 120             \* --days default

(* prune('job_type_id', JobType); prune('job_group_id', JobGroup);        *)
(* prune('machine_id', Machine)                                            *)
(* Variant of PruneOrder: the first two calls of prune exchanged. *)
PruneOrderSwapped == <<"JobGroup", "JobType", "Machine">>

PruneOrder == <<"JobType", "JobGroup", "Machine">>
Kinds == {PruneOrder[i] : i \in 1..Len(PruneOrder)}

(* Repository rows.  'try' may be missing from the table. *)
TryRepo == [id |-> 1, name |-> "try"]
OtherRepo == [id |-> 2, name |-> "autoland"]

(* ------------------------------------------------------------- variables *)
VARIABLES
    data_source,        \* which cycler Command.fabricate_data_cycler builds
    days,               \* --days
    chunk_size,         \* --chunk-size
    site_override,      \* settings.SITE_HOSTNAME is the prototype host
    cycler,             \* "none" | "constructed"
    state,              \* Idle, Running, Completed, Aborted, Failed, ConfigError
    raised,             \* the exception that left cycle()/__init__, or "None"
    log,                \* set of <<level, message>> written to the logger
    elapsed,            \* hours since the run started
    db_statements,      \* number of statements sent to the database
    \* ---- perfherder
    repository,         \* Repository table
    performance_datum,  \* performance_datum table
    removed,            \* rows deleted so far, with the strategy that did it
    strategies,         \* removal_strategies built by PerfherderCycler.cycle
    cur,                \* index of the strategy cycle_data is looping on
    sizer,              \* outcome of the last _find_ideal_chunk_size call
    rowcounts,          \* rowcount of every DELETE executed by remove()
    repo_lookups,       \* number of Repository.objects.get(name='try') calls
    step_started,      \* elapsed time at which the last delete/prune step started
    \* ---- treeherder
    job,                \* Job table
    ancillary,          \* kind -> ids of the JobType / JobGroup / Machine table
    pc,                 \* position of TreeherderCycler.cycle
    kind,               \* index in PruneOrder of the kind being pruned
    unused_ids,         \* prune's unused_ids, a list
    rs_deleted,         \* jobs deleted by Job.objects.cycle_data
    cycle_data_exc,     \* the exception Job.objects.cycle_data ended with, or "None"
    pruned,             \* every ancillary delete: kind, id, whether a job referenced it
    passes,             \* kinds whose prune() call was started
    \* ---- history of the run
    job_deletes,        \* rowcount of every delete of Job.objects.cycle_data
    delete_ids_log,     \* delete_ids of every iteration of the running prune loop
    unused_at_start,    \* the unused ids the running prune computed
    remove_exc,         \* the exception that left PerformanceDatum.objects.cycle_data
    run,                \* 1, or 2 once the command has been run again
    before_run          \* the tables and the caught error when the second run started

perf_vars == <<repository, performance_datum, removed, strategies, cur, sizer,
               rowcounts, repo_lookups>>
common_vars == <<data_source, days, chunk_size, site_override, cycler, state,
                 raised, log, elapsed, db_statements, step_started>>
tree_vars == <<job, ancillary, pc, kind, unused_ids, rs_deleted, cycle_data_exc,
              pruned, passes>>
hist_vars == <<job_deletes, delete_ids_log, unused_at_start, remove_exc, run, before_run>>
vars == <<common_vars, perf_vars, tree_vars, hist_vars>>

(* --------------------------------------------------------------- helpers *)
Max(S) == CHOOSE x \in S : \A y \in S : y <= x
Min2(a, b) == IF a <= b THEN a ELSE b

(* Wall-clock values the elapsed time is drawn from: not exceeding the    *)
(* maximum runtime, and exceeding it.                                     *)
ElapsedValues == {0, max_runtime, max_runtime + 1}
LaterOrEqual(e) == {x \in ElapsedValues : x >= e}

(* Ages (days) of the rows: around the two cutoffs. *)
RowKinds ==
    [repository_id : {TryRepo.id},
     age : {TRY_CYCLE_INTERVAL - 1, TRY_CYCLE_INTERVAL, TRY_CYCLE_INTERVAL + 1,
            MINIMUM_PERFHERDER_EXPIRE_INTERVAL + 1}]
    \cup
    [repository_id : {OtherRepo.id},
     age : {MINIMUM_PERFHERDER_EXPIRE_INTERVAL - 1,
            MINIMUM_PERFHERDER_EXPIRE_INTERVAL,
            MINIMUM_PERFHERDER_EXPIRE_INTERVAL + 1}]

Absent == [repository_id |-> 0, age |-> 0]

Tables ==
    { { [id |-> i, push_timestamp |-> 0 - f[i].age, repository_id |-> f[i].repository_id]
          : i \in {j \in 1..MaxRows : f[j] # Absent} }
      : f \in [1..MaxRows -> RowKinds \cup {Absent}] }

NoSizer == [exc |-> "NotCalled", value |-> 0]

(* ============================================================ chunk sizer *)
(* _find_ideal_chunk_size of both strategies.  `scope` is the set of     *)
(* repository ids the queries are filtered on (all of them for            *)
(* MainRemovalStrategy).  `[0]` on an empty queryset raises IndexError.    *)
FindIdealChunkSize(table, max_timestamp, size, scope) ==
    LET newer == {r \in table : r.push_timestamp > max_timestamp
                                /\ r.repository_id \in scope}
    IN  IF newer = {}
        THEN [exc |-> "IndexError", value |-> 0]
        ELSE LET max_id == Max({r.id : r \in newer})
                 older == {r \in table : /\ r.push_timestamp <= max_timestamp
                                        /\ r.id <= max_id
                                        /\ r.repository_id \in scope}
                 older_ids == Min2(Cardinality(older), size)
             IN  [exc |-> "None",
                  value |-> IF older_ids # 0 THEN older_ids ELSE size]

AllRepoIds == {TryRepo.id, OtherRepo.id}

(* Variant of MainMatches: the cutoff compared with <= . *)
MainMatchesLte(table, max_timestamp) ==
    {r \in table : r.push_timestamp <= max_timestamp}

(* Rows matched by the WHERE clause of a strategy's DELETE. *)
MainMatches(table, max_timestamp) ==
    {r \in table : r.push_timestamp < max_timestamp}

(* Variant of TryMatches: the repository_id condition is left out. *)
TryMatchesAnyRepository(table, max_timestamp, try_repo) ==
    {r \in table : r.push_timestamp < max_timestamp}

TryMatches(table, max_timestamp, try_repo) ==
    {r \in table : r.repository_id = try_repo /\ r.push_timestamp < max_timestamp}

(* Variant of Limited: the LIMIT clause is left out. *)
LimitedNoLimit(matches, n) == {matches}

(* DELETE ... LIMIT n without ORDER BY: any n of the matching rows (all of *)
(* them when fewer match).                                                 *)
Limited(matches, n) ==
    {v \in SUBSET matches : Cardinality(v) = Min2(n, Cardinality(matches))}

(* ================================================================== Init *)
(* Job rows: older or newer than the default retention interval, each   *)
(* referencing one row of every ancillary kind.  The enumerated jobs       *)
(* reference the rows that have the same id in the three tables; which of  *)
(* those tables hold further, unreferenced rows is chosen per table.       *)
JobKinds ==
    {[age |-> a, JobType |-> i, JobGroup |-> i, Machine |-> i]
       : a \in {DEFAULT_DAYS - 1, DEFAULT_DAYS + 1}, i \in 1..MaxAnc}

NoJob == [age |-> 0, JobType |-> 0, JobGroup |-> 0, Machine |-> 0]

JobTables ==
    { { [id |-> i, submit_time |-> 0 - f[i].age, JobType |-> f[i].JobType,
         JobGroup |-> f[i].JobGroup, Machine |-> f[i].Machine]
          : i \in {j \in 1..MaxJobs : f[j] # NoJob} }
      : f \in [1..MaxJobs -> JobKinds \cup {NoJob}] }

(* values_list(id_name, flat=True).distinct() over Job *)
UsedIds(jobs, k) == {j[k] : j \in jobs}

InitCommon ==
    /\ chunk_size \in 1..MaxChunk
    /\ cycler = "none"
    /\ state = "Idle"
    /\ raised = "None"
    /\ log = {}
    /\ elapsed = 0
    /\ db_statements = 0
    /\ step_started = 0
    /\ removed = {}
    /\ strategies = <<>>
    /\ cur = 0
    /\ sizer = NoSizer
    /\ rowcounts = <<>>
    /\ repo_lookups = 0
    /\ pc = "start"
    /\ kind = 0
    /\ unused_ids = <<>>
    /\ rs_deleted = 0
    /\ cycle_data_exc = "None"
    /\ pruned = {}
    /\ passes = {}
    /\ job_deletes = <<>>
    /\ delete_ids_log = <<>>
    /\ unused_at_start = {}
    /\ remove_exc = "None"
    /\ run = 1
    /\ before_run = [performance_datum |-> {}, job |-> {}, ancillary |-> {},
                     cycle_data_exc |-> "None"]

(* The tables of the domain that is not cycled are neither read nor       *)
(* written by the run; they are left empty.  TreeherderCycler never reads  *)
(* settings.SITE_HOSTNAME.                                                 *)
InitPerfherder ==
    /\ data_source = PERFHERDER
    /\ days \in {MINIMUM_PERFHERDER_EXPIRE_INTERVAL - 1, MINIMUM_PERFHERDER_EXPIRE_INTERVAL}
    /\ site_override \in BOOLEAN
    /\ repository \in {{TryRepo, OtherRepo}, {OtherRepo}}
    /\ performance_datum \in
         {t \in Tables : \A r \in t : r.repository_id \in {x.id : x \in repository}}
    /\ job = {}
    /\ ancillary = [k \in Kinds |-> {}]

InitTreeherder ==
    /\ data_source = TREEHERDER
    /\ days = DEFAULT_DAYS
    /\ site_override = FALSE
    /\ repository = {TryRepo, OtherRepo}
    /\ performance_datum = {}
    /\ job \in JobTables
    /\ ancillary \in {a \in [Kinds -> SUBSET (1..MaxAnc)] :
                         \A k \in Kinds : UsedIds(job, k) \subseteq a[k]}

Init == InitCommon /\ (InitPerfherder \/ InitTreeherder)

(* ====================================================== PerfherderCycler *)
(* Variant of FloorViolated: the floor compared with <= . *)
FloorViolatedLte(d, override) ==
    d <= MINIMUM_PERFHERDER_EXPIRE_INTERVAL /\ ~override

(* PerfherderCycler.__init__ *)
FloorViolated(d, override) ==
    d < MINIMUM_PERFHERDER_EXPIRE_INTERVAL /\ ~override

PerfherderCyclerInit ==
    /\ data_source = PERFHERDER
    /\ cycler = "none"
    /\ state = "Idle"
    /\ IF FloorViolated(days, site_override)
       THEN /\ state' = "ConfigError"
            /\ raised' = "ValueError"
            /\ cycler' = cycler
       ELSE /\ cycler' = "constructed"
            /\ UNCHANGED <<state, raised>>
    /\ UNCHANGED <<data_source, days, chunk_size, site_override, log, elapsed,
                   db_statements, step_started, perf_vars, tree_vars>>
    /\ UNCHANGED <<job_deletes, delete_ids_log, unused_at_start, remove_exc, run, before_run>>

(* MainRemovalStrategy.__init__ and TryDataRemoval.__init__ *)
MainRemovalStrategy(cycle_interval, size) ==
    [name |-> "main", cycle_interval |-> cycle_interval, chunk_size |-> size,
     max_timestamp |-> 0 - cycle_interval, try_repo_id |-> 0]

TryDataRemoval(size) ==
    [name |-> "try", cycle_interval |-> TRY_CYCLE_INTERVAL, chunk_size |-> size,
     max_timestamp |-> 0 - TRY_CYCLE_INTERVAL, try_repo_id |-> 0]

(* PerfherderCycler.cycle up to the call of PerformanceDatum.objects.cycle_data *)
PerfherderCycle ==
    /\ data_source = PERFHERDER
    /\ cycler = "constructed"
    /\ state = "Idle"
    /\ state' = "Running"
    /\ strategies' = <<MainRemovalStrategy(days, chunk_size), TryDataRemoval(chunk_size)>>
    /\ cur' = 1
    /\ UNCHANGED <<data_source, days, chunk_size, site_override, cycler, raised, log,
                   elapsed, db_statements, step_started, repository,
                   performance_datum, removed, sizer, rowcounts, repo_lookups,
                   tree_vars>>
    /\ UNCHANGED <<job_deletes, delete_ids_log, unused_at_start, remove_exc, run, before_run>>

(* Variant of PerfherderCycleCatches: a bare except clause. *)
PerfherderCycleCatchesAll(exc) == TRUE

(* Variant of PerfherderCycleCatches: no except clause. *)
PerfherderCycleCatchesNothing(exc) == FALSE

(* except MaxRuntimeExceeded as ex: logger.warning(ex) -- every other      *)
(* exception leaves cycle().                                               *)
PerfherderCycleCatches(exc) == exc = "MaxRuntimeExceeded"

PerfherderCycleEnds(exc) ==
    /\ remove_exc' = exc
    /\ IF PerfherderCycleCatches(exc)
       THEN /\ state' = "Aborted"
            /\ raised' = "None"
            /\ log' = log \cup {<<"warning", exc>>}
       ELSE /\ state' = "Failed"
            /\ raised' = exc
            /\ log' = log

(* ---- the removal strategies ------------------------------------------ *)
(* TryDataRemoval.try_repo: the cached id, or one lookup by name.  0 is   *)
(* None; the result is the id, or 0 when Repository.DoesNotExist.         *)
TryRepoMissing(strategy) ==
    strategy.try_repo_id = 0 /\ TryRepo \notin repository

(* Variant of TryRepoLooksUp: the cached id is never used. *)
TryRepoLooksUpAlways(strategy) == TRUE

TryRepoLooksUp(strategy) == strategy.try_repo_id = 0

try_repo(strategy) ==
    IF strategy.try_repo_id # 0 THEN strategy.try_repo_id ELSE TryRepo.id

(* The strategy's chunk sizer on the current table. *)
StrategySizer(strategy) ==
    IF strategy.name = "main"
    THEN FindIdealChunkSize(performance_datum, strategy.max_timestamp,
                            strategy.chunk_size, AllRepoIds)
    ELSE FindIdealChunkSize(performance_datum, strategy.max_timestamp,
                            strategy.chunk_size, {try_repo(strategy)})

StrategyMatches(strategy) ==
    IF strategy.name = "main"
    THEN MainMatches(performance_datum, strategy.max_timestamp)
    ELSE TryMatches(performance_datum, strategy.max_timestamp, try_repo(strategy))

(* Variant of AfterTryRepo: the call also recomputes the cutoff from the   *)
(* time that has passed.                                                  *)
AfterTryRepoMovesCutoff(strategy) ==
    [strategy EXCEPT !.max_timestamp = elapsed - strategy.cycle_interval]

(* The strategy object after a call that went through try_repo. *)
AfterTryRepo(strategy) ==
    IF strategy.name = "try"
    THEN [strategy EXCEPT !.try_repo_id = try_repo(strategy)]
    ELSE strategy

Running == data_source = PERFHERDER /\ state = "Running" /\ cur \in 1..Len(strategies)

(* ---- PerformanceDatum.objects.cycle_data: one iteration of the loop    *)
(* over one strategy.  The guard is checked first.                        *)
(* Variant of MaxOverallRuntime: twice the class attribute is passed. *)
MaxOverallRuntimeDoubled == max_runtime + max_runtime

(* cycle() passes started_at and self.max_runtime to cycle_data. *)
MaxOverallRuntime == max_runtime

GuardTrips == elapsed > MaxOverallRuntime

CycleDataGuardTrip ==
    /\ Running
    /\ GuardTrips
    /\ PerfherderCycleEnds("MaxRuntimeExceeded")
    /\ UNCHANGED <<data_source, days, chunk_size, site_override, cycler, elapsed,
                   db_statements, step_started, perf_vars, tree_vars>>
    /\ UNCHANGED <<job_deletes, delete_ids_log, unused_at_start, run, before_run>>

(* strategy.remove(using) raising before its DELETE: the 'try' repository  *)
(* is not in the Repository table, or the chunk sizer indexes an empty     *)
(* queryset.                                                               *)
CycleDataRemoveRaises ==
    /\ Running
    /\ ~GuardTrips
    /\ step_started' = elapsed
    /\ LET strategy == strategies[cur]
       IN  IF strategy.name = "try" /\ TryRepoMissing(strategy)
           THEN /\ repo_lookups' = repo_lookups + 1
                /\ db_statements' = db_statements + 1
                /\ PerfherderCycleEnds("DoesNotExist")
                /\ UNCHANGED <<strategies, sizer>>
           ELSE /\ StrategySizer(strategy).exc = "IndexError"
                /\ sizer' = StrategySizer(strategy)
                /\ strategies' = [strategies EXCEPT ![cur] = AfterTryRepo(strategy)]
                /\ repo_lookups' = IF strategy.name = "try" /\ TryRepoLooksUp(strategy)
                                   THEN repo_lookups + 1 ELSE repo_lookups
                /\ db_statements' = db_statements + 1
                                    + (IF strategy.name = "try" /\ TryRepoLooksUp(strategy)
                                       THEN 1 ELSE 0)
                /\ PerfherderCycleEnds("IndexError")
    /\ elapsed' \in LaterOrEqual(elapsed)
    /\ UNCHANGED <<data_source, days, chunk_size, site_override, cycler,
                   repository, performance_datum, removed, cur, rowcounts, tree_vars>>
    /\ UNCHANGED <<job_deletes, delete_ids_log, unused_at_start, run, before_run>>

(* strategy.remove(using) executing its DELETE; cycle_data leaves the      *)
(* strategy's loop when the statement deleted nothing.                     *)
CycleDataRemove ==
    /\ Running
    /\ ~GuardTrips
    /\ step_started' = elapsed
    /\ LET strategy == strategies[cur]
           size == StrategySizer(strategy)
       IN  /\ ~(strategy.name = "try" /\ TryRepoMissing(strategy))
           /\ size.exc = "None"
           /\ sizer' = size
           /\ strategies' = [strategies EXCEPT ![cur] = AfterTryRepo(strategy)]
           /\ repo_lookups' = IF strategy.name = "try" /\ TryRepoLooksUp(strategy)
                              THEN repo_lookups + 1 ELSE repo_lookups
           /\ db_statements' = db_statements + 3
                               + (IF strategy.name = "try" /\ TryRepoLooksUp(strategy)
                                  THEN 1 ELSE 0)
           /\ \E victims \in Limited(StrategyMatches(strategy), size.value) :
                /\ performance_datum' = performance_datum \ victims
                /\ removed' = removed \cup {[row |-> r, by |-> strategy] : r \in victims}
                /\ rowcounts' = Append(rowcounts, Cardinality(victims))
                /\ IF victims # {}
                   THEN UNCHANGED <<cur, state>>
                   ELSE /\ cur' = cur + 1
                        /\ state' = IF cur = Len(strategies) THEN "Completed" ELSE state
    /\ elapsed' \in LaterOrEqual(elapsed)
    /\ UNCHANGED <<data_source, days, chunk_size, site_override, cycler, raised, log,
                   repository, tree_vars>>
    /\ UNCHANGED <<job_deletes, delete_ids_log, unused_at_start, remove_exc, run, before_run>>

(* The DELETE statement failing in the database. *)
CycleDataRemoveFails ==
    /\ Running
    /\ ~GuardTrips
    /\ step_started' = elapsed
    /\ LET strategy == strategies[cur]
           size == StrategySizer(strategy)
       IN  /\ ~(strategy.name = "try" /\ TryRepoMissing(strategy))
           /\ size.exc = "None"
           /\ sizer' = size
           /\ strategies' = [strategies EXCEPT ![cur] = AfterTryRepo(strategy)]
           /\ repo_lookups' = IF strategy.name = "try" /\ TryRepoLooksUp(strategy)
                              THEN repo_lookups + 1 ELSE repo_lookups
           /\ db_statements' = db_statements + 3
                               + (IF strategy.name = "try" /\ TryRepoLooksUp(strategy)
                                  THEN 1 ELSE 0)
    /\ PerfherderCycleEnds("OperationalError")
    /\ elapsed' \in LaterOrEqual(elapsed)
    /\ UNCHANGED <<data_source, days, chunk_size, site_override, cycler,
                   repository, performance_datum, removed, cur, rowcounts, tree_vars>>
    /\ UNCHANGED <<job_deletes, delete_ids_log, unused_at_start, run, before_run>>

PerfNext ==
    \/ PerfherderCyclerInit
    \/ PerfherderCycle
    \/ CycleDataGuardTrip
    \/ CycleDataRemoveRaises
    \/ CycleDataRemove
    \/ CycleDataRemoveFails

(* ====================================================== TreeherderCycler *)
(* DataCycler.__init__: TreeherderCycler adds no validation. *)
DataCyclerInit ==
    /\ data_source = TREEHERDER
    /\ cycler = "none"
    /\ state = "Idle"
    /\ cycler' = "constructed"
    /\ UNCHANGED <<data_source, days, chunk_size, site_override, state, raised, log,
                   elapsed, db_statements, step_started, perf_vars, tree_vars>>
    /\ UNCHANGED <<job_deletes, delete_ids_log, unused_at_start, remove_exc, run, before_run>>

(* TreeherderCycler.cycle up to the call of Job.objects.cycle_data *)
TreeherderCycle ==
    /\ data_source = TREEHERDER
    /\ cycler = "constructed"
    /\ state = "Idle"
    /\ state' = "Running"
    /\ pc' = "cycle_data"
    /\ log' = log \cup {<<"warning", "Cycling jobs across all repositories">>}
    /\ UNCHANGED <<data_source, days, chunk_size, site_override, cycler, raised,
                   elapsed, db_statements, step_started, perf_vars,
                   job, ancillary, kind, unused_ids, rs_deleted, cycle_data_exc, pruned,
                   passes>>
    /\ UNCHANGED <<job_deletes, delete_ids_log, unused_at_start, remove_exc, run, before_run>>

(* ---- Job.objects.cycle_data(cycle_interval, chunk_size, sleep_time)    *)
ExpiredJobs(jobs, cycle_interval) ==
    {j \in jobs : j.submit_time < 0 - cycle_interval}

JobsCycleDataChunk ==
    /\ pc = "cycle_data"
    /\ ExpiredJobs(job, days) # {}
    /\ step_started' = elapsed
    /\ \E victims \in Limited(ExpiredJobs(job, days), chunk_size) :
         /\ job' = job \ victims
         /\ rs_deleted' = rs_deleted + Cardinality(victims)
         /\ job_deletes' = Append(job_deletes, Cardinality(victims))
    /\ db_statements' = db_statements + 1
    /\ elapsed' \in LaterOrEqual(elapsed)
    /\ UNCHANGED <<data_source, days, chunk_size, site_override, cycler, state, raised,
                   log, perf_vars, ancillary, pc, kind, unused_ids, cycle_data_exc, pruned,
                   passes>>
    /\ UNCHANGED <<delete_ids_log, unused_at_start, remove_exc, run, before_run>>

(* Variant of TreeherderCycleCatches: no except clause. *)
TreeherderCycleCatchesNothing(exc) == FALSE

(* except OperationalError as e: self.logger.error(...) *)
TreeherderCycleCatches(exc) == exc = "OperationalError"

(* What follows the try statement of TreeherderCycler.cycle once         *)
(* Job.objects.cycle_data has ended with `exc` ("None": it returned).     *)
AfterCycleData(exc) ==
    IF exc = "None"
    THEN /\ pc' = "prune"
         /\ kind' = 1
         /\ log' = log \cup {<<"warning", "Deleted jobs">>}
         /\ UNCHANGED <<state, raised>>
    ELSE IF TreeherderCycleCatches(exc)
    THEN /\ pc' = "prune"
         /\ kind' = 1
         /\ log' = log \cup {<<"error", "Error running cycle_data">>}
         /\ UNCHANGED <<state, raised>>
    ELSE /\ pc' = "raised"
         /\ state' = "Failed"
         /\ raised' = exc
         /\ UNCHANGED <<kind, log>>

JobsCycleDataReturns ==
    /\ pc = "cycle_data"
    /\ ExpiredJobs(job, days) = {}
    /\ AfterCycleData("None")
    /\ UNCHANGED <<data_source, days, chunk_size, site_override, cycler, elapsed,
                   db_statements, step_started, perf_vars,
                   job, ancillary, unused_ids, rs_deleted, cycle_data_exc, pruned,
                   passes>>
    /\ UNCHANGED <<job_deletes, delete_ids_log, unused_at_start, remove_exc, run, before_run>>

JobErrors == {"OperationalError", "IntegrityError"}

JobsCycleDataRaises ==
    /\ pc = "cycle_data"
    /\ \E exc \in JobErrors : cycle_data_exc' = exc /\ AfterCycleData(exc)
    /\ UNCHANGED <<data_source, days, chunk_size, site_override, cycler, elapsed,
                   db_statements, step_started, perf_vars,
                   job, ancillary, unused_ids, rs_deleted, pruned, passes>>
    /\ UNCHANGED <<job_deletes, delete_ids_log, unused_at_start, remove_exc, run, before_run>>

(* ---- remove_leftovers and its prune(id_name, model) ------------------ *)
Orderings(S) ==
    {q \in [1..Cardinality(S) -> S] : \A i, j \in 1..Cardinality(S) : q[i] = q[j] => i = j}

(* Variant of Take: the slice ends one element too far. *)
TakeOneMore(q, n) == SubSeq(q, 1, Min2(n + 1, Len(q)))

(* unused_ids[: n] and unused_ids[n :] *)
Take(q, n) == SubSeq(q, 1, Min2(n, Len(q)))

(* Variant of Drop: the slice starts one element too far. *)
DropOneMore(q, n) == SubSeq(q, n + 2, Len(q))

Drop(q, n) == SubSeq(q, n + 1, Len(q))
Range(q) == {q[i] : i \in 1..Len(q)}

(* Variant of UnusedIds: the exclude() is left out. *)
UnusedIdsNoExclude(table, jobs, k) == table

(* model.objects.exclude(id__in=used_ids).values_list('id', flat=True) *)
UnusedIds(table, jobs, k) == table \ UsedIds(jobs, k)

(* model.objects.filter(id__in=delete_ids).delete(): the jobs that still  *)
(* reference a deleted row go with it (the foreign keys of Job cascade).   *)
OnDeleteCascade(jobs, k, ids) == {j \in jobs : j[k] \notin ids}

(* The statements of prune() before its while loop. *)
PruneBegin ==
    /\ pc = "prune"
    /\ step_started' = elapsed
    /\ unused_ids' \in Orderings(UnusedIds(ancillary[PruneOrder[kind]], job, PruneOrder[kind]))
    /\ passes' = passes \cup {PruneOrder[kind]}
    /\ unused_at_start' = Range(unused_ids')
    /\ delete_ids_log' = <<>>
    /\ pc' = "pruning"
    /\ log' = log \cup {<<"warning", "Pruning", PruneOrder[kind]>>}
    /\ db_statements' = db_statements + 1
    /\ elapsed' \in LaterOrEqual(elapsed)
    /\ UNCHANGED <<data_source, days, chunk_size, site_override, cycler, state, raised,
                   perf_vars, job, ancillary, kind, rs_deleted, cycle_data_exc, pruned>>
    /\ UNCHANGED <<job_deletes, remove_exc, run, before_run>>

(* One iteration of `while len(unused_ids)`. *)
PruneDelete ==
    /\ pc = "pruning"
    /\ Len(unused_ids) # 0
    /\ step_started' = elapsed
    /\ LET k == PruneOrder[kind]
           delete_ids == Take(unused_ids, chunk_size)
       IN  /\ ancillary' = [ancillary EXCEPT ![k] = @ \ Range(delete_ids)]
           /\ pruned' = pruned \cup
                  {[kind |-> k, id |-> i, referenced |-> i \in UsedIds(job, k)]
                     : i \in Range(delete_ids) \cap ancillary[k]}
           /\ unused_ids' = Drop(unused_ids, chunk_size)
           /\ delete_ids_log' = Append(delete_ids_log, Range(delete_ids))
           /\ job' = OnDeleteCascade(job, k, Range(delete_ids))
    /\ db_statements' = db_statements + 1
    /\ elapsed' \in LaterOrEqual(elapsed)
    /\ UNCHANGED <<data_source, days, chunk_size, site_override, cycler, state, raised,
                   log, perf_vars, pc, kind, rs_deleted, cycle_data_exc, passes>>
    /\ UNCHANGED <<job_deletes, unused_at_start, remove_exc, run, before_run>>

(* The delete of one iteration failing in the database: nothing catches   *)
(* it in prune, remove_leftovers or cycle.                                 *)
PruneDeleteRaises ==
    /\ pc = "pruning"
    /\ Len(unused_ids) # 0
    /\ step_started' = elapsed
    /\ pc' = "raised"
    /\ state' = "Failed"
    /\ raised' = "OperationalError"
    /\ db_statements' = db_statements + 1
    /\ elapsed' \in LaterOrEqual(elapsed)
    /\ UNCHANGED <<data_source, days, chunk_size, site_override, cycler, log,
                   perf_vars, job, ancillary, kind, unused_ids, rs_deleted,
                   cycle_data_exc, pruned, passes>>
    /\ UNCHANGED <<job_deletes, delete_ids_log, unused_at_start, remove_exc, run, before_run>>

(* The while loop ends: prune returns, and remove_leftovers calls the     *)
(* next prune or returns to cycle, which returns.                          *)
PruneReturns ==
    /\ pc = "pruning"
    /\ Len(unused_ids) = 0
    /\ delete_ids_log' = <<>>
    /\ unused_at_start' = {}
    /\ IF kind < Len(PruneOrder)
       THEN /\ kind' = kind + 1
            /\ pc' = "prune"
            /\ state' = state
       ELSE /\ kind' = kind
            /\ pc' = "done"
            /\ state' = "Completed"
    /\ UNCHANGED <<data_source, days, chunk_size, site_override, cycler, raised, log,
                   elapsed, db_statements, step_started, perf_vars,
                   job, ancillary, unused_ids, rs_deleted, cycle_data_exc, pruned,
                   passes>>
    /\ UNCHANGED <<job_deletes, remove_exc, run, before_run>>

TreeNext ==
    \/ DataCyclerInit
    \/ TreeherderCycle
    \/ JobsCycleDataChunk
    \/ JobsCycleDataReturns
    \/ JobsCycleDataRaises
    \/ PruneBegin
    \/ PruneDelete
    \/ PruneDeleteRaises
    \/ PruneReturns

Next == PerfNext \/ TreeNext

Spec == Init /\ [][Next]_vars

(* ---- the command run a second time ----------------------------------- *)
(* Command.handle called again with the same options right after a run    *)
(* that completed: a new cycler is fabricated, the tables are what the     *)
(* first run left, and no time has passed, so the cutoffs are the same.    *)
RunAgain ==
    /\ run = 1
    /\ state = "Completed"
    /\ run' = 2
    /\ before_run' = [performance_datum |-> performance_datum, job |-> job,
                       ancillary |-> ancillary, cycle_data_exc |-> cycle_data_exc]
    /\ cycler' = "none"
    /\ state' = "Idle"
    /\ elapsed' = 0
    /\ step_started' = 0
    /\ db_statements' = 0
    /\ strategies' = <<>>
    /\ cur' = 0
    /\ sizer' = NoSizer
    /\ rowcounts' = <<>>
    /\ repo_lookups' = 0
    /\ pc' = "start"
    /\ kind' = 0
    /\ unused_ids' = <<>>
    /\ rs_deleted' = 0
    /\ cycle_data_exc' = "None"
    /\ passes' = {}
    /\ job_deletes' = <<>>
    /\ remove_exc' = "None"
    /\ UNCHANGED <<data_source, days, chunk_size, site_override, raised, log,
                   repository, performance_datum, removed, job, ancillary, pruned,
                   delete_ids_log, unused_at_start>>

NextTwice == Next \/ RunAgain

SpecTwice == Init /\ [][NextTwice]_vars

(* ---- another process writing jobs while the cycler runs --------------- *)
(* The ingestion side of the service inserts a Job row while cycle() is    *)
(* in progress: a new job (submitted now) with an id not in use, whose      *)
(* foreign keys name rows present in the three ancillary tables at the      *)
(* moment of the insert.  prune() takes no lock and opens no transaction,   *)
(* so the insert can fall between any two of its statements.                *)
InsertJob ==
    /\ data_source = TREEHERDER
    /\ state = "Running"
    /\ \E i \in (1..MaxJobs) \ {j.id : j \in job} :
       \E t \in ancillary["JobType"], g \in ancillary["JobGroup"], m \in ancillary["Machine"] :
          job' = job \cup {[id |-> i, submit_time |-> 0, JobType |-> t,
                            JobGroup |-> g, Machine |-> m]}
    /\ UNCHANGED <<data_source, days, chunk_size, site_override, cycler, state, raised,
                   log, elapsed, db_statements, step_started, perf_vars, ancillary, pc,
                   kind, unused_ids, rs_deleted, cycle_data_exc, pruned, passes>>
    /\ UNCHANGED <<job_deletes, delete_ids_log, unused_at_start, remove_exc, run, before_run>>

NextConcurrent == Next \/ InsertJob

SpecConcurrent == Init /\ [][NextConcurrent]_vars

(* ================================================================ claims *)
TryStrategyAt(i) == strategies[i].name = "try"

(* C1: for every chunk size N >= 1 and every contents of performance_datum *)
(* (the empty table and a table without a row newer than the cutoff        *)
(* included) the chunk sizer of either strategy returns a value v with     *)
(* 1 <= v <= N, and returns N when no row is eligible for deletion.        *)
C1_ChunkSizerWithinBounds ==
    state = "Running" =>
      \A i \in 1..Len(strategies) :
        (TryStrategyAt(i) => TryRepo \in repository) =>
          LET r == StrategySizer(strategies[i])
          IN  /\ r.exc = "None"
              /\ r.value \in 1..strategies[i].chunk_size
              /\ StrategyMatches(strategies[i]) = {} => r.value = strategies[i].chunk_size

(* The cutoff a strategy computed when it was constructed. *)
CutoffAtConstruction(name) ==
    IF name = "main" THEN 0 - days ELSE 0 - TRY_CYCLE_INTERVAL

(* C2: every row deleted by a removal strategy has push_timestamp strictly *)
(* older than the cutoff fixed when the strategy was constructed.          *)
C2_OnlyRowsOlderThanCutoffDeleted ==
    \A d \in removed : d.row.push_timestamp < CutoffAtConstruction(d.by.name)

C2_Witness ==
    /\ \E d \in removed : d.by.name = "main"
    /\ \E d \in removed : d.by.name = "try"
    /\ performance_datum # {}

(* C3: when the 'try' repository has no rows in performance_datum,         *)
(* TryDataRemoval.remove raises no error: the chunk size falls back to the *)
(* configured chunk size, one DELETE deleting zero rows is executed and    *)
(* the run completes normally.                                             *)
NoTryRows ==
    \A r \in performance_datum \cup {d.row : d \in removed} :
        r.repository_id # TryRepo.id

C3_ScopedStrategyWithoutRowsCompletes ==
    (/\ data_source = PERFHERDER
     /\ TryRepo \in repository
     /\ NoTryRows
     /\ cur >= 2
     /\ state \notin {"Running", "Aborted"}
     /\ raised # "OperationalError")
    => /\ state = "Completed"
       /\ sizer = [exc |-> "None", value |-> chunk_size]
       /\ rowcounts[Len(rowcounts)] = 0

(* C4: when a TreeherderCycler.cycle() run has finished, every JobType,    *)
(* JobGroup and Machine row that still exists is referenced by a           *)
(* remaining job.                                                          *)
C4_NoOrphanAfterRun ==
    (data_source = TREEHERDER /\ state = "Completed") =>
        \A k \in Kinds : ancillary[k] \subseteq UsedIds(job, k)

C4_Witness ==
    /\ data_source = TREEHERDER
    /\ state = "Completed"
    /\ \A k \in Kinds : \E p \in pruned : p.kind = k
    /\ rs_deleted > 0
    /\ job # {}

(* C5: remove_leftovers never deletes a JobType, JobGroup or Machine row   *)
(* that a job existing at the moment of the delete references.             *)
C5_NoReferencedRowPruned ==
    \A p \in pruned : ~p.referenced

C5_Witness ==
    /\ pruned # {}
    /\ job # {}
    /\ \E k \in Kinds : ancillary[k] # {}

(* C6: when the runtime guard signals MaxRuntimeExceeded during            *)
(* PerfherderCycler.cycle(), the run ends Aborted and not Failed: the      *)
(* signal is logged as a warning, cycle() returns without raising, no      *)
(* further delete is issued and the rows deleted before stay deleted.      *)
GuardSignals == Running /\ GuardTrips

C6_GuardAbortsRun ==
    [][ /\ GuardSignals =>
            /\ state' = "Aborted"
            /\ raised' = "None"
            /\ <<"warning", "MaxRuntimeExceeded">> \in log'
            /\ performance_datum' = performance_datum
            /\ rowcounts' = rowcounts
            /\ removed' = removed
        /\ state = "Aborted" =>
            /\ state' = "Aborted"
            /\ raised' = "None"
            /\ performance_datum' = performance_datum
            /\ rowcounts' = rowcounts
            /\ removed' = removed ]_vars

C6_Witness ==
    /\ state = "Aborted"
    /\ removed # {}
    /\ StrategyMatches(strategies[cur]) # {}

(* C7: the runtime guard is checked before every chunked deletion          *)
(* iteration and before every orphan-prune sub-step of a cycling run: no   *)
(* chunk delete and no prune step starts once the elapsed time exceeds the *)
(* maximum runtime.                                                        *)
C7_NoStepStartsPastMaxRuntime ==
    step_started <= max_runtime

(* C7 as amended: only the chunked deletions of a PerfherderCycler run are *)
(* guarded.                                                                *)
C7_NoPerfherderChunkStartsPastMaxRuntime ==
    data_source = PERFHERDER => step_started <= max_runtime

C7_Witness ==
    /\ data_source = PERFHERDER
    /\ state = "Aborted"
    /\ step_started = max_runtime
    /\ rowcounts # <<>>

(* C8: constructing a PerfherderCycler with days < 365 and no override     *)
(* environment fails with a configuration error before the run leaves Idle *)
(* and before any database access; with days >= 365, or with the override  *)
(* declared, construction succeeds.                                        *)
C8_FloorCheckedAtConstruction ==
    data_source = PERFHERDER =>
      /\ (days < MINIMUM_PERFHERDER_EXPIRE_INTERVAL /\ ~site_override) =>
            /\ state \in {"Idle", "ConfigError"}
            /\ cycler = "none"
            /\ db_statements = 0
            /\ removed = {}
            /\ state = "ConfigError" => raised = "ValueError"
      /\ (days >= MINIMUM_PERFHERDER_EXPIRE_INTERVAL \/ site_override) =>
            /\ state # "ConfigError"
            /\ raised # "ValueError"
            /\ state # "Idle" => cycler = "constructed"

C8_Witness ==
    /\ data_source = PERFHERDER
    /\ state = "ConfigError"
    /\ performance_datum # {}

(* C9: an OperationalError raised by the primary bulk delete of            *)
(* TreeherderCycler.cycle() is caught and logged, remove_leftovers still   *)
(* runs afterwards and cycle() does not propagate that error.              *)
C9_OperationalErrorDoesNotSkipPruning ==
    cycle_data_exc = "OperationalError" =>
      /\ <<"error", "Error running cycle_data">> \in log
      /\ pc \in {"prune", "pruning", "done", "raised"}
      /\ pc # "prune" \/ kind > 1 => PruneOrder[1] \in passes
      /\ pc = "raised" => passes # {}
      /\ pc = "done" => passes = Kinds /\ state = "Completed" /\ raised = "None"

C9_Witness ==
    /\ cycle_data_exc = "OperationalError"
    /\ pc = "done"
    /\ rs_deleted > 0
    /\ ExpiredJobs(job, days) # {}
    /\ pruned # {}

(* C10: an error raised during the pruning pass of one ancillary kind does *)
(* not halt the pruning passes of the other kinds: each remaining kind is  *)
(* still pruned in the same run.                                           *)
C10_PruneErrorDoesNotHaltOtherKinds ==
    (pc = "raised" /\ passes # {}) => passes = Kinds

Ceil(a, b) == (a + b - 1) \div b

RECURSIVE SumSeq(_)
SumSeq(q) == IF q = <<>> THEN 0 ELSE q[1] + SumSeq(Tail(q))

(* Index of the first statement that deleted nothing (Len + 1 if none). *)
FirstZeroFrom(q, from) ==
    IF \E i \in from..Len(q) : q[i] = 0
    THEN CHOOSE i \in from..Len(q) : q[i] = 0 /\ \A j \in from..(i - 1) : q[j] # 0
    ELSE Len(q) + 1

(* The rowcounts of the deleting statements of the main strategy: those    *)
(* before the first statement that deleted nothing.                        *)
MainCounts == SubSeq(rowcounts, 1, FirstZeroFrom(rowcounts, 1) - 1)

RemovedBy(name) == {d.row : d \in {x \in removed : x.by.name = name}}

(* E rows deleted in ceil(E/N) statements of N rows, the last one of the   *)
(* remainder.                                                              *)
ChunkedEvenly(counts, E, N) ==
    /\ Len(counts) = Ceil(E, N)
    /\ \A i \in 1..Len(counts) :
         counts[i] = IF i < Len(counts) THEN N ELSE E - N * (Len(counts) - 1)

(* C11: for every chunk size N and every number E of eligible rows, a      *)
(* cycling run without error or guard trip executes exactly ceil(E/N)      *)
(* deleting statements, each removing N rows except the last, which        *)
(* removes the remainder; none removes more than N and E rows are removed  *)
(* in total.                                                               *)
C11_CeilStatementsOfFullChunks ==
    /\ (data_source = TREEHERDER /\ state = "Completed" /\ cycle_data_exc = "None") =>
          /\ ChunkedEvenly(job_deletes, rs_deleted, chunk_size)
          /\ ExpiredJobs(job, days) = {}
    /\ (data_source = PERFHERDER /\ state = "Completed") =>
          /\ ChunkedEvenly(MainCounts, Cardinality(RemovedBy("main")), chunk_size)
          /\ MainMatches(performance_datum, 0 - days) = {}

(* C11 as amended: no statement removes more than N rows and all E rows    *)
(* are removed; the job deletion takes ceil(E/N) statements of full        *)
(* chunks, a removal strategy takes at least ceil(E/N) deleting            *)
(* statements, its LIMIT being the chunk sizer's value.                    *)
C11_BoundedStatementsRemoveAllEligible ==
    /\ \A i \in 1..Len(job_deletes) : job_deletes[i] \in 1..chunk_size
    /\ \A i \in 1..Len(rowcounts) : rowcounts[i] \in 0..chunk_size
    /\ SumSeq(rowcounts) = Cardinality(removed)
    /\ (data_source = TREEHERDER /\ state = "Completed" /\ cycle_data_exc = "None") =>
          /\ ChunkedEvenly(job_deletes, rs_deleted, chunk_size)
          /\ ExpiredJobs(job, days) = {}
    /\ (data_source = PERFHERDER /\ state = "Completed") =>
          /\ Len(MainCounts) >= Ceil(Cardinality(RemovedBy("main")), chunk_size)
          /\ SumSeq(MainCounts) = Cardinality(RemovedBy("main"))
          /\ MainMatches(performance_datum, 0 - days) = {}

C11_Witness ==
    /\ data_source = PERFHERDER
    /\ state = "Completed"
    /\ Len(MainCounts) > Ceil(Cardinality(RemovedBy("main")), chunk_size)
    /\ chunk_size > 1

(* Errors of the database, as opposed to errors of the cycler's own code. *)
DatabaseErrors == {"OperationalError", "IntegrityError"}

SecondRunDeletedNothing ==
    /\ performance_datum = before_run.performance_datum
    /\ job = before_run.job
    /\ ancillary = before_run.ancillary
    /\ \A i \in 1..Len(rowcounts) : rowcounts[i] = 0
    /\ rs_deleted = 0
    /\ job_deletes = <<>>
    /\ delete_ids_log = <<>>
    /\ unused_ids = <<>>
    /\ raised # "None" => raised \in DatabaseErrors
    /\ (state \notin {"Idle", "Running"} /\ raised = "None" /\ elapsed <= max_runtime)
          => state = "Completed"

C13_NoReferencedRowPrunedUnderInserts ==
    /\ {p \in pruned : p.referenced} = {}
    /\ \A j \in job : \A k \in Kinds : j[k] \in ancillary[k]

(* C14: an error other than MaxRuntimeExceeded raised while a removal      *)
(* strategy deletes a chunk is not caught by PerfherderCycler.cycle(): it   *)
(* leaves cycle(), the run is Failed (not Completed, not Aborted) and stays *)
(* so, and the rows deleted before the error stay deleted.                  *)
RemoveRaised == remove_exc \notin {"None", "MaxRuntimeExceeded"}

C14_StrategyErrorPropagates ==
    /\ [](RemoveRaised =>
            /\ state = "Failed"
            /\ raised = remove_exc
            /\ \A d \in removed : d.row \notin performance_datum)
    /\ [][(RemoveRaised' /\ run' = run) =>
            /\ performance_datum' = performance_datum
            /\ removed' = removed
            /\ rowcounts' = rowcounts]_vars

C14_Witness ==
    /\ data_source = PERFHERDER
    /\ remove_exc = "OperationalError"
    /\ state = "Failed"
    /\ removed # {}
    /\ performance_datum # {}

(* C15: in every TreeherderCycler.cycle() run the job deletion step has    *)
(* ended (by returning or by a caught OperationalError) before any         *)
(* ancillary row is deleted, and the kinds are pruned in the order         *)
(* JobType, JobGroup, Machine, the pass of one kind having deleted all it  *)
(* computed before the pass of the next kind begins.                       *)
PassOrder == <<"JobType", "JobGroup", "Machine">>

PassesBegun == Cardinality(passes)

C15_FixedStepOrder ==
    /\ [](data_source = TREEHERDER =>
            /\ pc \in {"start", "cycle_data"} => (pruned = {} /\ passes = {})
            /\ passes = {PassOrder[i] : i \in 1..PassesBegun}
            /\ \A p \in pruned : p.kind \in passes)
    /\ [][/\ rs_deleted' # rs_deleted => (passes' = {} /\ pruned' = {})
          /\ cycle_data_exc' # cycle_data_exc => (passes' = {} /\ pruned' = {})
          /\ passes' # passes =>
                /\ pc \notin {"start", "cycle_data"}
                /\ Len(unused_ids) = 0
                /\ passes' = passes \cup {PassOrder[PassesBegun + 1]}
          /\ \A p \in pruned' \ pruned :
                /\ pc = "pruning"
                /\ p.kind = PassOrder[PassesBegun]]_vars

C15_Witness ==
    /\ data_source = TREEHERDER
    /\ pc = "pruning"
    /\ passes = Kinds
    /\ rs_deleted > 0
    /\ cycle_data_exc = "OperationalError"
    /\ \A k \in Kinds : \E p \in pruned : p.kind = k

(* C16: every row deleted by TryDataRemoval.remove belongs to repository   *)
(* 'try'; a row of another repository is never deleted by it, however old  *)
(* the row is.                                                             *)
OtherRepositoryRows(table) == {r \in table : r.repository_id # TryRepo.id}

C16_ScopedStrategyDeletesOnlyItsScope ==
    /\ [](\A d \in removed : d.by.name = "try" => d.row.repository_id = TryRepo.id)
    /\ [][(Running /\ TryStrategyAt(cur)) =>
            OtherRepositoryRows(performance_datum') = OtherRepositoryRows(performance_datum)]_vars

C16_Witness ==
    /\ state = "Completed"
    /\ \E d \in removed : d.by.name = "try"
    /\ \E r \in OtherRepositoryRows(performance_datum) :
          r.push_timestamp < CutoffAtConstruction("try")

(* C17: one TryDataRemoval instance looks the 'try' repository up at most   *)
(* once, on first use; every later remove() and chunk-sizer call uses the   *)
(* cached id without a new lookup.                                         *)
TryStrategyCached ==
    \E i \in 1..Len(strategies) : TryStrategyAt(i) /\ strategies[i].try_repo_id # 0

C17_ScopeLookedUpAtMostOnce ==
    /\ [](/\ repo_lookups <= 1
          /\ TryStrategyCached => repo_lookups = 1
          /\ \A i \in 1..Len(strategies) :
                strategies[i].try_repo_id \in
                    (IF TryStrategyAt(i) THEN {0, TryRepo.id} ELSE {0}))
    /\ [][(TryStrategyCached /\ run' = run) =>
            /\ repo_lookups' = repo_lookups
            /\ strategies' = strategies]_vars

C17_Witness ==
    /\ state = "Completed"
    /\ chunk_size = 1
    /\ repo_lookups = 1
    /\ Cardinality({d \in removed : d.by.name = "try"}) >= 2

(* C18: a removal strategy's cutoff timestamp and chunk size are set at     *)
(* construction and no remove() or chunk-sizer call changes them: all       *)
(* chunks of a run use the same cutoff although time passes and rows are    *)
(* deleted.                                                                *)
C18_CutoffAndChunkSizeFixed ==
    /\ [](\A i \in 1..Len(strategies) :
            /\ strategies[i].max_timestamp = CutoffAtConstruction(strategies[i].name)
            /\ strategies[i].chunk_size = chunk_size)
    /\ [][(strategies # <<>> /\ run' = run) =>
            /\ Len(strategies') = Len(strategies)
            /\ \A i \in 1..Len(strategies) :
                  /\ strategies'[i].max_timestamp = strategies[i].max_timestamp
                  /\ strategies'[i].cycle_interval = strategies[i].cycle_interval
                  /\ strategies'[i].chunk_size = strategies[i].chunk_size
                  /\ strategies'[i].name = strategies[i].name]_vars

C18_Witness ==
    /\ elapsed > 0
    /\ step_started > 0
    /\ Len(rowcounts) >= 3
    /\ \E d \in removed : d.by.name = "main"
    /\ \E d \in removed : d.by.name = "try"

(* C19: for every chunk size N >= 1 and every number U of unreferenced     *)
(* ids of one kind, the loop of prune ends after exactly ceil(U/N) delete  *)
(* statements; their id sets have at most N ids each, are pairwise         *)
(* disjoint, and their union is the set of unreferenced ids computed at    *)
(* the start of the pass.                                                  *)
DeletedSoFar == UNION {delete_ids_log[i] : i \in 1..Len(delete_ids_log)}

C19_PruneLoopChunks ==
    /\ [](pc = "pruning" =>
            /\ \A i \in 1..Len(delete_ids_log) :
                  Cardinality(delete_ids_log[i]) \in 1..chunk_size
            /\ \A i, j \in 1..Len(delete_ids_log) :
                  i # j => delete_ids_log[i] \cap delete_ids_log[j] = {}
            /\ DeletedSoFar \cup Range(unused_ids) = unused_at_start
            /\ DeletedSoFar \cap Range(unused_ids) = {}
            /\ Len(unused_ids) = 0 =>
                  /\ Len(delete_ids_log) = Ceil(Cardinality(unused_at_start), chunk_size)
                  /\ DeletedSoFar = unused_at_start)
    /\ [][(pc = "pruning" /\ pc' = "pruning" /\ run' = run) =>
            /\ Len(unused_ids) > 0
            /\ Len(unused_ids') < Len(unused_ids)
            /\ Len(delete_ids_log') = Len(delete_ids_log) + 1
            /\ unused_at_start' = unused_at_start]_vars

C19_Witness ==
    /\ pc = "pruning"
    /\ Len(unused_ids) = 0
    /\ chunk_size < Cardinality(unused_at_start)
    /\ Len(delete_ids_log) = 2

====
